---- MODULE Spec2Model ----
(***************************************************************************)
(* Model of stocks/src/main.rs: the acquisition-and-normalization pipeline *)
(* of the `stocks` program.  AlphaVantageClient::fetch sends one HTTP GET  *)
(* and deserializes the body, parse_response turns the raw string-keyed    *)
(* map into a Vec<SeriesEntry> sorted by date, and model() runs the two in *)
(* sequence, unwrapping the result of fetch.                               *)
(*                                                                         *)
(* Representation.                                                         *)
(*  - A text value (a JSON string of the field map) is a sequence of       *)
(*    one-character strings, so that str::parse is computed digit by digit.*)
(*  - An f32 is a fixed-point number in tenths (10.5 is 105); every text  *)
(*    of the model has at most one fractional digit.                       *)
(*  - A timestamp key is a record [date, time] of the numeric fields the   *)
(*    format "%Y-%m-%d %H:%M:%S" reads; a NaiveDateTime is the 6-tuple     *)
(*    <<Y, m, d, H, M, S>>, ordered lexicographically.                     *)
(*  - A HashMap is a function; its iteration order is a nondeterministic   *)
(*    choice of the next unvisited key.                                    *)
(***************************************************************************)
EXTENDS Integers, Sequences, FiniteSets, TLC

VARIABLES
    pc,            \* control position of the run
    api_key,       \* AlphaVantageClient.api_key
    av_req,        \* the AlphaVantageRequest handed to fetch
    wire,          \* the HTTP requests sent so far, in order
    response,      \* what the provider answered to the request in flight
    fetch_result,  \* Result<AlphaVantageResponse, AlphaVantageError> of the last fetch
    fetch_calls,   \* number of invocations of fetch
    res,           \* parse_response: res.time_series_helper.time_series
    todo_keys,     \* parse_response: keys the outer loop has not visited
    entry,         \* parse_response: the SeriesEntry under construction
    todo_fields,   \* parse_response: the (label, data) pairs the inner loop has not visited
    entities,      \* parse_response: the Vec being filled
    model,         \* the Model built by model(): [built, symbol, entries]
    panic,         \* the unwrap that panicked, "none" while running
    parse_calls    \* number of invocations of parse_response

vars == <<pc, api_key, av_req, wire, response, fetch_result, fetch_calls, res,
          todo_keys, entry, todo_fields, entities, model, panic, parse_calls>>

fetchVars == <<wire, response, fetch_result>>
parseVars == <<res, todo_keys, entry, todo_fields, entities, model, parse_calls>>

----------------------------------------------------------------------------
(* Bounds of the model. *)

\* Largest number of timestamp keys in a multi-entry raw response.
MaxEntries == 3

\* Largest number of fetch invocations on one client.
MaxFetches == 2

----------------------------------------------------------------------------
(* Program constants. *)

BASE_URL == "https://www.alphavantage.co/query"

\* #[serde(rename(deserialize = "Time Series (60min)"))]
EXPECTED_KEY == "Time Series (60min)"

\* The literals of model().
FUNCTION == "TIME_SERIES_INTRADAY"
SYMBOL == "TEAM"
INTERVAL == "60min"

\* The variants of AlphaVantageError.
RequestFailed == "RequestFailed"
FailedResponseToString == "FailedResponseToString"
IssueDeserialisationError == "IssueDeserialisationError"

\* The labels matched by parse_response, and one the match does not know.
L_open == "1. open"
L_high == "2. high"
L_low == "3. low"
L_close == "4. close"
L_volume == "5. volume"
L_extra == "6. extra"

FloatLabels == {L_open, L_high, L_low, L_close}
Recognized == FloatLabels \cup {L_volume}
Labels == Recognized \cup {L_extra}

----------------------------------------------------------------------------
(* Inputs: what the environment and the provider can supply. *)

\* API_KEY of the environment; unwrap_or_default gives "" when it is unset.
Keys == {"", "demo"}

Intervals == {"60min", "5min"}

\* Text values: "10.5", "1000", "abc".
T_10_5 == <<"1", "0", ".", "5">>
T_1000 == <<"1", "0", "0", "0">>
T_abc == <<"a", "b", "c">>
Texts == {T_10_5, T_1000, T_abc}

\* Timestamp keys: three that follow the pattern and a date alone.
K_0900 == [date |-> <<2024, 1, 2>>, time |-> <<9, 0, 0>>]
K_1000 == [date |-> <<2024, 1, 2>>, time |-> <<10, 0, 0>>]
K_next == [date |-> <<2024, 1, 3>>, time |-> <<9, 30, 0>>]
K_dateonly == [date |-> <<2024, 1, 2>>, time |-> <<>>]
TsKeys == {K_0900, K_1000, K_next, K_dateonly}

\* Every field map over the labels.
FieldMaps == UNION {[D -> Texts] : D \in SUBSET Labels}

EmptyMap == [l \in {} |-> T_abc]

\* Field maps of the multi-entry responses: empty, close alone, all five
\* labels, a volume that is no integer, an unknown label, a close that is
\* no number.
FullMap ==
    [l \in Recognized |-> IF l \in {L_open, L_low} THEN T_10_5 ELSE T_1000]
SampleMaps ==
    { EmptyMap,
      [l \in {L_close} |-> T_10_5],
      FullMap,
      [l \in {L_close, L_volume} |-> T_10_5],
      [l \in {L_close, L_extra} |-> IF l = L_close THEN T_1000 ELSE T_abc],
      [l \in {L_close} |-> T_abc] }

\* Raw responses: one entry with any field map, or up to MaxEntries entries
\* with sample field maps.
RichResponses == {[k \in {K_0900} |-> fm] : fm \in FieldMaps}
MultiResponses ==
    UNION {[D -> SampleMaps] :
             D \in {S \in SUBSET TsKeys : Cardinality(S) <= MaxEntries}}
RawResponses == RichResponses \cup MultiResponses

EmptyRaw == [k \in {} |-> EmptyMap]

\* Raw maps carried under a label other than the expected one.
FewResponses == {EmptyRaw, [k \in {K_0900, K_1000} |-> FullMap]}

\* Values of a top-level key of the body: an object of objects of strings
\* (the shape of TimeSeriesHelper), or anything else.
Shaped(raw) == [shape |-> "map", map |-> raw]
Scalar == [shape |-> "scalar", map |-> EmptyRaw]

\* Bodies: unreadable, not JSON, or a JSON object.
IoErrBody == [kind |-> "ioerr", obj |-> [k \in {} |-> Scalar]]
TextBody == [kind |-> "text", obj |-> [k \in {} |-> Scalar]]
JsonBody(obj) == [kind |-> "json", obj |-> obj]
JsonObjects ==
    { [k \in {} |-> Scalar],
      [k \in {"Error Message"} |-> Scalar],
      [k \in {EXPECTED_KEY} |-> Scalar] }
    \cup {[k \in {EXPECTED_KEY} |-> Shaped(raw)] : raw \in RawResponses}
    \cup {[k \in {"Meta Data", EXPECTED_KEY} |->
             IF k = EXPECTED_KEY THEN Shaped(raw) ELSE Scalar] :
          raw \in FewResponses}
    \cup {[k \in {"Time Series (5min)"} |-> Shaped(raw)] :
          raw \in FewResponses}
Bodies == {IoErrBody, TextBody} \cup {JsonBody(o) : o \in JsonObjects}

\* Provider responses: no connection, an error status, or 200 with a body.
NoResponse == [net |-> "none", status |-> 0, body |-> TextBody]
Responses ==
    { [net |-> "refused", status |-> 0, body |-> TextBody],
      [net |-> "ok", status |-> 500, body |-> TextBody],
      [net |-> "ok", status |-> 404, body |-> TextBody] }
    \cup {[net |-> "ok", status |-> 200, body |-> b] : b \in Bodies}

----------------------------------------------------------------------------
(* str::parse and NaiveDateTime::parse_from_str. *)

IsDigit(c) == c \in {"0", "1", "2", "3", "4", "5", "6", "7", "8", "9"}

Digit(c) ==
    CASE c = "0" -> 0 [] c = "1" -> 1 [] c = "2" -> 2 [] c = "3" -> 3
      [] c = "4" -> 4 [] c = "5" -> 5 [] c = "6" -> 6 [] c = "7" -> 7
      [] c = "8" -> 8 [] OTHER -> 9

AllDigits(t) == \A i \in 1..Len(t) : IsDigit(t[i])

RECURSIVE DigitsValue(_)
DigitsValue(t) ==
    IF t = <<>> THEN 0
    ELSE DigitsValue(SubSeq(t, 1, Len(t) - 1)) * 10 + Digit(t[Len(t)])

\* data.parse::<u64>(): one or more decimal digits.
ParseU64(t) ==
    IF Len(t) > 0 /\ AllDigits(t)
    THEN [ok |-> TRUE, val |-> DigitsValue(t)]
    ELSE [ok |-> FALSE, val |-> 0]

\* data.parse::<f32>(): digits with at most one point and at least one
\* digit; the value is in tenths.  (Signs, exponents, "inf" and "NaN", which
\* f32::from_str also reads, are not among the texts of the model.)
ParseF32(t) ==
    LET dots == {i \in 1..Len(t) : t[i] = "."}
        dot == CHOOSE i \in dots : TRUE
        ip == SubSeq(t, 1, dot - 1)
        fp == SubSeq(t, dot + 1, Len(t))
    IN  IF dots = {}
        THEN IF Len(t) > 0 /\ AllDigits(t)
             THEN [ok |-> TRUE, val |-> DigitsValue(t) * 10]
             ELSE [ok |-> FALSE, val |-> 0]
        ELSE IF Cardinality(dots) = 1 /\ AllDigits(ip) /\ AllDigits(fp)
                /\ Len(ip) + Len(fp) > 0
             THEN [ok |-> TRUE,
                   val |-> DigitsValue(ip) * 10
                           + (IF fp = <<>> THEN 0 ELSE Digit(fp[1]))]
             ELSE [ok |-> FALSE, val |-> 0]

\* NaiveDateTime::default(): 1970-01-01 00:00:00.
DefaultDate == <<1970, 1, 1, 0, 0, 0>>

\* NaiveDateTime::parse_from_str(key, "%Y-%m-%d %H:%M:%S"): the key must hold
\* a date and a time of three fields each, every field in its range (the
\* length of the month is not modelled: no key of the model has a day past
\* the 28th).
ParseFromStr(key) ==
    IF /\ Len(key.date) = 3
       /\ Len(key.time) = 3
       /\ key.date[2] \in 1..12
       /\ key.date[3] \in 1..31
       /\ key.time[1] \in 0..23
       /\ key.time[2] \in 0..59
       /\ key.time[3] \in 0..59
    THEN [ok |-> TRUE, val |-> key.date \o key.time]
    ELSE [ok |-> FALSE, val |-> DefaultDate]

\* a.date.cmp(&b.date) = Less: the derived order of NaiveDateTime.
RECURSIVE LexLess(_, _, _)
LexLess(a, b, i) ==
    IF i > Len(a) THEN FALSE
    ELSE IF a[i] # b[i] THEN a[i] < b[i]
    ELSE LexLess(a, b, i + 1)

DateLess(a, b) == LexLess(a, b, 1)

----------------------------------------------------------------------------
(* SeriesEntry and the body of parse_response. *)

\* A default with a volume that is not zero.
SeriesEntryDefault_nonzero ==
    [date |-> DefaultDate, open |-> 0, high |-> 0, low |-> 0, close |-> 0,
     volume |-> 1]

SeriesEntryDefault ==
    [date |-> DefaultDate, open |-> 0, high |-> 0, low |-> 0, close |-> 0,
     volume |-> 0]

\* The outcome of one arm of the match: the entry after it, or ok = FALSE
\* when the arm's unwrap panics.
Continue(e) == [ok |-> TRUE, entry |-> e]
Unwound(e) == [ok |-> FALSE, entry |-> e]

\* "1. open" => entry.open = data.parse().unwrap()
ArmOpen(e, data) ==
    LET p == ParseF32(data)
    IN  IF p.ok THEN Continue([e EXCEPT !.open = p.val]) ELSE Unwound(e)

\* "2. high" => entry.high = data.parse().unwrap()
ArmHigh(e, data) ==
    LET p == ParseF32(data)
    IN  IF p.ok THEN Continue([e EXCEPT !.high = p.val]) ELSE Unwound(e)

\* The arm of "3. low" writing the field of "2. high".
ArmLow_writeshigh(e, data) ==
    LET p == ParseF32(data)
    IN  IF p.ok THEN Continue([e EXCEPT !.high = p.val]) ELSE Unwound(e)

\* "3. low" => entry.low = data.parse().unwrap()
ArmLow(e, data) ==
    LET p == ParseF32(data)
    IN  IF p.ok THEN Continue([e EXCEPT !.low = p.val]) ELSE Unwound(e)

\* The arm of "4. close" keeping the default when the value does not parse
\* (unwrap_or_default in place of unwrap).
ArmClose_skipbad(e, data) ==
    LET p == ParseF32(data)
    IN  IF p.ok THEN Continue([e EXCEPT !.close = p.val]) ELSE Continue(e)

\* "4. close" => entry.close = data.parse().unwrap()
ArmClose(e, data) ==
    LET p == ParseF32(data)
    IN  IF p.ok THEN Continue([e EXCEPT !.close = p.val]) ELSE Unwound(e)

\* "5. volume" => entry.volume = data.parse().unwrap()
ArmVolume(e, data) ==
    LET p == ParseU64(data)
    IN  IF p.ok THEN Continue([e EXCEPT !.volume = p.val]) ELSE Unwound(e)

\* A default arm that parses the value of a label it does not know.
ArmOther_parsed(e, data) ==
    IF ParseF32(data).ok THEN Continue(e) ELSE Unwound(e)

\* _ => {}
ArmOther(e, data) == Continue(e)

\* match key.as_str() { ... }
ApplyField(e, label, data) ==
    CASE label = L_open -> ArmOpen(e, data)
      [] label = L_high -> ArmHigh(e, data)
      [] label = L_low -> ArmLow(e, data)
      [] label = L_close -> ArmClose(e, data)
      [] label = L_volume -> ArmVolume(e, data)
      [] OTHER -> ArmOther(e, data)

\* entities.sort_by(|a, b| a.date.cmp(&b.date)): a stable sort.
RECURSIVE InsertByDate(_, _)
InsertByDate(s, e) ==
    IF s = <<>> THEN <<e>>
    ELSE IF DateLess(e.date, s[Len(s)].date)
         THEN Append(InsertByDate(SubSeq(s, 1, Len(s) - 1), e), s[Len(s)])
         ELSE Append(s, e)

\* The Vec returned as it was filled, without the sort.
SortByDate_unsorted(s) == s

RECURSIVE SortByDate(_)
SortByDate(s) ==
    IF s = <<>> THEN <<>>
    ELSE InsertByDate(SortByDate(SubSeq(s, 1, Len(s) - 1)), s[Len(s)])

\* A function without one key of its domain.
Without(f, k) == [x \in DOMAIN f \ {k} |-> f[x]]

----------------------------------------------------------------------------
(* AlphaVantageClient::fetch. *)

build_request(function, symbol, interval) ==
    [function |-> function, symbol |-> symbol, interval |-> interval]

NoRequest == build_request("", "", "")

\* The GET that fetch builds from the request and the client's key.
HttpGet(req, key) ==
    [url |-> BASE_URL, accept |-> "application/json",
     function |-> req.function, symbol |-> req.symbol,
     interval |-> req.interval, apikey |-> key]

Ok(v) == [ok |-> TRUE, err |-> "none", val |-> v]
Err(e) == [ok |-> FALSE, err |-> e, val |-> EmptyRaw]
NoResult == Err("none")

\* req.call(): Ok for a success status; no connection is
\* ureq::Error::Transport and an error status is ureq::Error::Status.
CallOk(resp) == resp.net = "ok" /\ resp.status \in 200..299

\* The derived Deserialize of AlphaVantageResponse: the object must hold the
\* renamed field with the shape of TimeSeriesHelper; other keys are ignored.
DeserializeOk(obj) ==
    EXPECTED_KEY \in DOMAIN obj /\ obj[EXPECTED_KEY].shape = "map"

\* res.into_json()?: ureq's into_json returns io::Result<T>, reporting a body
\* it cannot read and a body serde_json rejects alike as std::io::Error, so
\* the `?` converts either through From<std::io::Error>.
IntoJson(body) ==
    IF body.kind = "json" /\ DeserializeOk(body.obj)
    THEN Ok(body.obj[EXPECTED_KEY].map)
    ELSE Err(FailedResponseToString)

\* The value fetch returns for a provider response.
FetchOutcome(resp) ==
    IF CallOk(resp) THEN IntoJson(resp.body) ELSE Err(RequestFailed)

----------------------------------------------------------------------------
(* The steps of fetch, shared by both specifications. *)

\* A fetch that refuses an empty key without sending anything.
FetchSend_rejectempty ==
    /\ pc = "fetch"
    /\ IF api_key = ""
       THEN /\ fetch_result' = Err(RequestFailed)
            /\ pc' = "fetch_ret"
            /\ UNCHANGED <<wire, response>>
       ELSE /\ wire' = Append(wire, HttpGet(av_req, api_key))
            /\ response' = NoResponse
            /\ pc' = "await"
            /\ UNCHANGED fetch_result
    /\ UNCHANGED <<api_key, av_req, fetch_calls, panic>>
    /\ UNCHANGED parseVars

\* fetch, up to the moment the request is on the wire: the GET is built from
\* the request and self.api_key and sent.
FetchSend ==
    /\ pc = "fetch"
    /\ wire' = Append(wire, HttpGet(av_req, api_key))
    /\ response' = NoResponse
    /\ pc' = "await"
    /\ UNCHANGED <<api_key, av_req, fetch_result, fetch_calls, panic>>
    /\ UNCHANGED parseVars

\* The provider (or the network) answers the request in flight.
ProviderRespond ==
    /\ pc = "await"
    /\ \E r \in Responses : response' = r
    /\ pc' = "recv"
    /\ UNCHANGED <<api_key, av_req, wire, fetch_result, fetch_calls, panic>>
    /\ UNCHANGED parseVars

\* A fetch that sends the request once more after a transport failure.
FetchReturn_retry ==
    /\ pc = "recv"
    /\ IF ~CallOk(response) /\ Len(wire) = fetch_calls
       THEN /\ pc' = "fetch"
            /\ UNCHANGED fetch_result
       ELSE /\ fetch_result' = FetchOutcome(response)
            /\ pc' = "fetch_ret"
    /\ UNCHANGED <<api_key, av_req, wire, response, fetch_calls, panic>>
    /\ UNCHANGED parseVars

\* req.call()? and res.into_json()?: fetch returns Ok(res) or the error the
\* `?` converted.
FetchReturn ==
    /\ pc = "recv"
    /\ fetch_result' = FetchOutcome(response)
    /\ pc' = "fetch_ret"
    /\ UNCHANGED <<api_key, av_req, wire, response, fetch_calls, panic>>
    /\ UNCHANGED parseVars

----------------------------------------------------------------------------
(* model(): the run of the program. *)

NoModel == [built |-> FALSE, symbol |-> "", entries |-> <<>>]

Init ==
    /\ pc = "model"
    /\ api_key = ""
    /\ av_req = NoRequest
    /\ wire = <<>>
    /\ response = NoResponse
    /\ fetch_result = NoResult
    /\ fetch_calls = 0
    /\ res = EmptyRaw
    /\ todo_keys = {}
    /\ entry = SeriesEntryDefault
    /\ todo_fields = EmptyMap
    /\ entities = <<>>
    /\ model = NoModel
    /\ panic = "none"
    /\ parse_calls = 0

\* The key is read from the environment ("" when unset), the client and the
\* request are built, and fetch is called.
ModelSetup ==
    /\ pc = "model"
    /\ \E key \in Keys : api_key' = key
    /\ av_req' = build_request(FUNCTION, SYMBOL, INTERVAL)
    /\ fetch_calls' = fetch_calls + 1
    /\ pc' = "fetch"
    /\ UNCHANGED <<panic>>
    /\ UNCHANGED fetchVars
    /\ UNCHANGED parseVars

\* unwrap_or_default in place of unwrap: an Err of fetch is normalized as an
\* empty response.
ModelUnwrap_lenient ==
    /\ pc = "fetch_ret"
    /\ res' = fetch_result.val
    /\ todo_keys' = DOMAIN fetch_result.val
    /\ entities' = <<>>
    /\ parse_calls' = parse_calls + 1
    /\ pc' = "parse_loop"
    /\ UNCHANGED <<api_key, av_req, fetch_calls, entry, todo_fields, model,
                   panic>>
    /\ UNCHANGED fetchVars

\* client.fetch(req).unwrap(), then the call of parse_response(res): on Err
\* the unwrap panics, on Ok parse_response starts with an empty Vec.
ModelUnwrap ==
    /\ pc = "fetch_ret"
    /\ IF fetch_result.ok
       THEN /\ res' = fetch_result.val
            /\ todo_keys' = DOMAIN fetch_result.val
            /\ entities' = <<>>
            /\ parse_calls' = parse_calls + 1
            /\ pc' = "parse_loop"
            /\ UNCHANGED panic
       ELSE /\ pc' = "panicked"
            /\ panic' = "fetch.unwrap"
            /\ UNCHANGED <<res, todo_keys, entities, parse_calls>>
    /\ UNCHANGED <<api_key, av_req, fetch_calls, entry, todo_fields, model>>
    /\ UNCHANGED fetchVars

\* The outer loop takes the next (key, value) pair of the map, in any order:
\* a default entry gets the parsed date, or the unwrap panics.
ParseNextEntry ==
    /\ pc = "parse_loop"
    /\ \E key \in todo_keys :
         LET p == ParseFromStr(key)
         IN  IF p.ok
             THEN /\ entry' = [SeriesEntryDefault EXCEPT !.date = p.val]
                  /\ todo_fields' = res[key]
                  /\ todo_keys' = todo_keys \ {key}
                  /\ pc' = "field_loop"
                  /\ UNCHANGED panic
             ELSE /\ pc' = "panicked"
                  /\ panic' = "parse_from_str.unwrap"
                  /\ UNCHANGED <<entry, todo_fields, todo_keys>>
    /\ UNCHANGED <<api_key, av_req, fetch_calls, res, entities, model,
                   parse_calls>>
    /\ UNCHANGED fetchVars

\* The inner loop takes the next (label, data) pair of the field map, in any
\* order, and runs the match on it.
ParseField ==
    /\ pc = "field_loop"
    /\ \E label \in DOMAIN todo_fields :
         LET r == ApplyField(entry, label, todo_fields[label])
         IN  IF r.ok
             THEN /\ entry' = r.entry
                  /\ todo_fields' = Without(todo_fields, label)
                  /\ UNCHANGED <<pc, panic>>
             ELSE /\ pc' = "panicked"
                  /\ panic' = "data.parse.unwrap"
                  /\ UNCHANGED <<entry, todo_fields>>
    /\ UNCHANGED <<api_key, av_req, fetch_calls, res, todo_keys, entities,
                   model, parse_calls>>
    /\ UNCHANGED fetchVars

\* entities.push(entry), once the field map is exhausted.
ParsePush ==
    /\ pc = "field_loop"
    /\ DOMAIN todo_fields = {}
    /\ entities' = Append(entities, entry)
    /\ pc' = "parse_loop"
    /\ UNCHANGED <<api_key, av_req, fetch_calls, res, todo_keys, entry,
                   todo_fields, model, panic, parse_calls>>
    /\ UNCHANGED fetchVars

\* Once the map is exhausted the Vec is sorted and returned, and model()
\* builds the Model from it.
ParseReturn ==
    /\ pc = "parse_loop"
    /\ todo_keys = {}
    /\ entities' = SortByDate(entities)
    /\ model' = [built |-> TRUE, symbol |-> SYMBOL,
                 entries |-> SortByDate(entities)]
    /\ pc' = "done"
    /\ UNCHANGED <<api_key, av_req, fetch_calls, res, todo_keys, entry,
                   todo_fields, panic, parse_calls>>
    /\ UNCHANGED fetchVars

Next ==
    \/ ModelSetup
    \/ FetchSend
    \/ ProviderRespond
    \/ FetchReturn
    \/ ModelUnwrap
    \/ ParseNextEntry
    \/ ParseField
    \/ ParsePush
    \/ ParseReturn

Spec == Init /\ [][Next]_vars

----------------------------------------------------------------------------
(* fetch as an operation of a client: any key, any request, several calls. *)

\* AlphaVantageClient::new(key).
InitFetch ==
    /\ pc = "idle"
    /\ api_key \in Keys
    /\ av_req = NoRequest
    /\ wire = <<>>
    /\ response = NoResponse
    /\ fetch_result = NoResult
    /\ fetch_calls = 0
    /\ res = EmptyRaw
    /\ todo_keys = {}
    /\ entry = SeriesEntryDefault
    /\ todo_fields = EmptyMap
    /\ entities = <<>>
    /\ model = NoModel
    /\ panic = "none"
    /\ parse_calls = 0

\* client.fetch(build_request(function, symbol, interval)), for a client that
\* is idle or has returned from its last call; the caller has dropped the
\* result of the last call.
CallFetch ==
    /\ pc \in {"idle", "fetch_ret"}
    /\ fetch_calls < MaxFetches
    /\ \E interval \in Intervals :
         av_req' = build_request(FUNCTION, SYMBOL, interval)
    /\ fetch_calls' = fetch_calls + 1
    /\ fetch_result' = NoResult
    /\ response' = NoResponse
    /\ pc' = "fetch"
    /\ UNCHANGED <<api_key, wire, panic>>
    /\ UNCHANGED parseVars

NextFetch ==
    \/ CallFetch
    \/ FetchSend
    \/ ProviderRespond
    \/ FetchReturn

SpecFetch == InitFetch /\ [][NextFetch]_vars

----------------------------------------------------------------------------
(* Vocabulary of the claims. *)

\* parse_response has been called and has returned / has panicked.
Returned == parse_calls > 0 /\ pc = "done"
Aborted == parse_calls > 0 /\ pc = "panicked"

BadKeys(raw) == {k \in DOMAIN raw : ~ParseFromStr(k).ok}

\* The recognized labels of a field map whose value does not parse as the
\* numeric type of its field.
BadLabels(fm) ==
    {l \in DOMAIN fm \cap FloatLabels : ~ParseF32(fm[l]).ok}
    \cup {l \in DOMAIN fm \cap {L_volume} : ~ParseU64(fm[l]).ok}

BadValues(raw) == {k \in DOMAIN raw : BadLabels(raw[k]) # {}}

\* The entries of a sequence that carry the date of a key.
EntriesOf(es, key) ==
    {i \in 1..Len(es) : es[i].date = ParseFromStr(key).val}

SortedByDate(es) ==
    \A i, j \in 1..Len(es) : i < j => ~DateLess(es[j].date, es[i].date)

\* The provider's top-level label for an interval: "Time Series (<interval>)".
TimeSeriesLabel(interval) ==
    IF interval = "60min" THEN "Time Series (60min)" ELSE "Time Series (5min)"

\* A field map without its unrecognized labels.
Strip(fm) == [l \in DOMAIN fm \cap Recognized |-> fm[l]]

\* The match of parse_response run over a field map in one fixed order.
RECURSIVE FoldFields(_, _)
FoldFields(e, fm) ==
    IF DOMAIN fm = {} THEN [ok |-> TRUE, entry |-> e]
    ELSE LET l == CHOOSE x \in DOMAIN fm : TRUE
             r == ApplyField(e, l, fm[l])
         IN  IF r.ok THEN FoldFields(r.entry, Without(fm, l)) ELSE r

\* What normalizing one raw entry without its unrecognized labels gives.
StrippedEntry(raw, key) ==
    FoldFields([SeriesEntryDefault EXCEPT !.date = ParseFromStr(key).val],
               Strip(raw[key]))

----------------------------------------------------------------------------
(* The claims. *)

\* C1: for a raw response with N timestamp keys, parse_response returns
\* exactly N entries, one per key, sorted non-decreasing by date, whatever the
\* order the map was iterated in; a well-formed response (every key and every
\* recognized value parses) always returns, and the empty response returns
\* the empty sequence without failing.
C1_SortedOnePerKey ==
    /\ Returned =>
         /\ Len(model.entries) = Cardinality(DOMAIN res)
         /\ \A k \in DOMAIN res : Cardinality(EntriesOf(model.entries, k)) = 1
         /\ SortedByDate(model.entries)
    /\ Aborted => BadKeys(res) \cup BadValues(res) # {}
    /\ (parse_calls > 0 /\ DOMAIN res = {}) => pc # "panicked"

C1_Witness ==
    /\ Returned
    /\ Len(model.entries) = 3

\* C2: the three failure conditions of fetch are reported with three
\* different kinds: transport failures as RequestFailed, an unreadable body
\* as FailedResponseToString, a body that is no JSON or lacks the expected
\* key as IssueDeserialisationError.
C2_DistinctErrorKinds ==
    pc = "fetch_ret" =>
      /\ ~CallOk(response) => fetch_result.err = RequestFailed
      /\ (CallOk(response) /\ response.body.kind = "ioerr")
           => fetch_result.err = FailedResponseToString
      /\ (/\ CallOk(response)
          /\ \/ response.body.kind = "text"
             \/ response.body.kind = "json" /\ ~DeserializeOk(response.body.obj))
           => fetch_result.err = IssueDeserialisationError

\* C3: normalization is fail-fast: a key that does not parse or a recognized
\* value that does not parse aborts the whole call (no Model, no partial
\* sequence, no skipped entry), and nothing else aborts it.
C3_FailFast ==
    /\ Returned =>
         /\ BadKeys(res) = {}
         /\ BadValues(res) = {}
         /\ Len(model.entries) = Cardinality(DOMAIN res)
    /\ Aborted =>
         /\ ~model.built
         /\ model.entries = <<>>
         /\ panic \in {"parse_from_str.unwrap", "data.parse.unwrap"}
         /\ panic = "parse_from_str.unwrap" => BadKeys(res) # {}
         /\ panic = "data.parse.unwrap" => BadValues(res) # {}

C3_Witness ==
    /\ Aborted
    /\ Len(entities) >= 1
    /\ panic = "data.parse.unwrap"

\* C4: for a request of interval I, fetch accepts the body whose top-level
\* key is the provider's label of I and returns that key's value as the raw
\* mapping.
C4_KeyMatchesInterval ==
    LET label == TimeSeriesLabel(av_req.interval)
        obj == response.body.obj
    IN  (/\ pc = "fetch_ret"
         /\ CallOk(response)
         /\ response.body.kind = "json"
         /\ label \in DOMAIN obj
         /\ obj[label].shape = "map")
        => fetch_result = Ok(obj[label].map)

\* C5: parse_response is called only after fetch has returned Ok; a transport
\* failure surfaces as RequestFailed at the unwrap and parse_response is not
\* called in that run.
C5_ParseOnlyAfterSuccess ==
    /\ parse_calls > 0 => fetch_result.ok
    /\ (pc \in {"fetch_ret", "parse_loop", "field_loop", "done", "panicked"}
        /\ ~CallOk(response))
         => /\ fetch_result = Err(RequestFailed)
            /\ parse_calls = 0
            /\ ~model.built
            /\ pc \in {"fetch_ret", "panicked"}
            /\ pc = "panicked" => panic = "fetch.unwrap"

C5_Witness ==
    /\ pc = "panicked"
    /\ response.status = 500
    /\ fetch_result.err = RequestFailed

\* C6: every field whose recognized label is absent from the entry's field
\* map is zero in the SeriesEntry, and the entry is still produced.
C6_AbsentIsZero ==
    Returned =>
      \A k \in DOMAIN res :
        /\ EntriesOf(model.entries, k) # {}
        /\ \A i \in EntriesOf(model.entries, k) :
             LET e == model.entries[i]
                 present == DOMAIN res[k]
             IN  /\ L_open \notin present => e.open = 0
                 /\ L_high \notin present => e.high = 0
                 /\ L_low \notin present => e.low = 0
                 /\ L_close \notin present => e.close = 0
                 /\ L_volume \notin present => e.volume = 0

C6_Witness ==
    /\ Returned
    /\ \E k \in DOMAIN res :
         /\ DOMAIN res[k] \cap Recognized = {L_close}
         /\ \E i \in EntriesOf(model.entries, k) : model.entries[i].close # 0

\* C7: unrecognized labels are ignored: every raw entry normalizes to the
\* SeriesEntry of the same entry without its unrecognized labels, whatever
\* their values, and the call fails only if it fails without them too.
C7_UnknownIgnored ==
    /\ Returned =>
         \A k \in DOMAIN res :
           /\ StrippedEntry(res, k).ok
           /\ \E i \in EntriesOf(model.entries, k) :
                model.entries[i] = StrippedEntry(res, k).entry
    /\ Aborted =>
         \/ BadKeys(res) # {}
         \/ \E k \in DOMAIN res \ BadKeys(res) : ~StrippedEntry(res, k).ok

C7_Witness ==
    /\ Returned
    /\ \E k \in DOMAIN res :
         /\ L_extra \in DOMAIN res[k]
         /\ res[k][L_extra] = T_abc
         /\ Recognized \subseteq DOMAIN res[k]

\* C8: for a raw entry with all five recognized labels, open, high, low,
\* close and volume are the parsed values of "1. open", "2. high", "3. low",
\* "4. close" and "5. volume" respectively, in every order of visit.
C8_FieldMapping ==
    Returned =>
      \A k \in DOMAIN res :
        Recognized \subseteq DOMAIN res[k] =>
          /\ EntriesOf(model.entries, k) # {}
          /\ \A i \in EntriesOf(model.entries, k) :
               LET e == model.entries[i]
                   fm == res[k]
               IN  /\ e.open = ParseF32(fm[L_open]).val
                   /\ e.high = ParseF32(fm[L_high]).val
                   /\ e.low = ParseF32(fm[L_low]).val
                   /\ e.close = ParseF32(fm[L_close]).val
                   /\ e.volume = ParseU64(fm[L_volume]).val

C8_Witness ==
    /\ Returned
    /\ \E k \in DOMAIN res :
         /\ Recognized \subseteq DOMAIN res[k]
         /\ res[k][L_open] # res[k][L_high]
         /\ res[k][L_low] # res[k][L_high]
         /\ res[k][L_close] # res[k][L_low]

\* C9: every invocation of fetch puts exactly one request on the wire,
\* whether it ends in success or in a failure: none before the send, one
\* from the send to the return, and none is added by the return.
C9_OneCallPerFetch ==
    /\ pc = "idle" => Len(wire) = 0 /\ fetch_calls = 0
    /\ pc = "fetch" => Len(wire) = fetch_calls - 1
    /\ pc \in {"await", "recv", "fetch_ret"} => Len(wire) = fetch_calls

C9_Witness ==
    /\ pc = "fetch_ret"
    /\ fetch_calls = 2
    /\ Len(wire) = 2
    /\ fetch_result.err = RequestFailed

\* C10: the credential is never rejected locally and never changed: every
\* step leaves api_key as it is, the send puts one request on the wire whose
\* apikey is api_key (the empty string included), and the result of fetch is
\* the one the provider's response decides.
C10_KeyPassedThrough ==
    [][/\ api_key' = api_key
       /\ pc = "fetch" =>
            /\ Len(wire') = Len(wire) + 1
            /\ wire'[Len(wire')].apikey = api_key
            /\ SubSeq(wire', 1, Len(wire)) = wire
       /\ pc' = "fetch_ret" =>
            /\ fetch_result'.ok =
                 (/\ CallOk(response')
                  /\ response'.body.kind = "json"
                  /\ DeserializeOk(response'.body.obj))
            /\ Len(wire') = fetch_calls']_vars

C10_Witness ==
    /\ api_key = ""
    /\ pc = "fetch_ret"
    /\ fetch_calls = 2
    /\ fetch_result.ok
    /\ \A i \in 1..Len(wire) : wire[i].apikey = ""

====
